---------------------------- MODULE Spec2Model ----------------------------
(***************************************************************************)
(* A model of mido/msg.py: the MIDI message specification table, the       *)
(* Message class (construction, validated attribute assignment, copy,      *)
(* bytes, equality) and a client that holds two message references.        *)
(*                                                                         *)
(* A Message object is modelled by its instance dictionary: a function     *)
(* from attribute names ("spec", "opcode", "type", the fields of the       *)
(* type and "time") to values.  An operation that can raise returns a      *)
(* record [err, ...] where err = NoErr means that it returned normally.    *)
(* Only integers (and tuples of integers for data) are drawn as inputs,    *)
(* so isint() and isnum() are true of every input.                         *)
(***************************************************************************)
EXTENDS Integers, Sequences, FiniteSets, TLC

VARIABLES msgs, last

vars == <<msgs, last>>

---------------------------------------------------------------------------
(* Bounds and input sets of the client.  The client binds two references,  *)
(* each once: msg = Message(name, **kw), and msg2 = Message(status_byte)   *)
(* or msg2 = msg.copy(override); it assigns attributes of both, encodes    *)
(* both and compares them.                                                 *)

\* longest sysex payload built from DataBytes
MaxData == 2

Refs == {"msg", "msg2"}

\* the bytes sysex payloads are built from (one legal, one not)
DataBytes == {7, 128}

RECURSIVE TuplesUpTo(_)
TuplesUpTo(n) ==
    IF n = 0 THEN {<<>>}
    ELSE LET shorter == TuplesUpTo(n - 1)
         IN  shorter \cup {Append(t, b) : t \in {s \in shorter : Len(s) = n - 1},
                                          b \in DataBytes}

\* the payloads assigned to data: every tuple over DataBytes up to MaxData,
\* and the payload of the documented example
DataInputs == TuplesUpTo(MaxData) \cup {<<1, 2, 3>>}

\* the (name, value) pairs the client assigns with setattr
AttrInputs ==
    {<<"channel", 1>>, <<"channel", 16>>, <<"channel", -1>>,
     <<"note", 60>>, <<"velocity", 32>>,
     <<"value", -8192>>, <<"value", 8191>>, <<"value", 8192>>,
     <<"pos", 200>>, <<"pos", 32768>>, <<"pos", -1>>,
     <<"time", 5>>,
     <<"spec", 0>>, <<"type", 0>>, <<"opcode", 0>>, <<"pitchwheel", 0>>}
    \cup {<<"data", d>> : d \in DataInputs}

\* the keyword dictionaries the client passes to Message() and copy()
Kws ==
    {<<>>,
     [channel |-> 1, note |-> 60, velocity |-> 100],
     [velocity |-> 32],
     [channel |-> 99],
     [channel |-> 1, value |-> 8191],
     [value |-> 8192],
     [pos |-> 200],
     [pos |-> 32768],
     [time |-> 5],
     [data |-> <<1, 2, 3>>],
     [data |-> <<128>>]}

\* the type names msg is constructed from
TypeInputs ==
    {"note_off", "note_on", "polytouch", "control_change", "program_change",
     "aftertouch", "pitchwheel", "sysex", "undefined_f1", "songpos", "song",
     "undefined_f4", "undefined_f5", "tune_request", "sysex_end", "clock",
     "undefined_f9", "start", "continue", "stop", "undefined_fd",
     "active_sensing", "reset", "bogus"}

\* the status bytes msg2 is constructed from
OpcodeInputs == {\h7F, \h93, \hFF}

\* the constructor calls of the client: <<reference, type_or_opcode, kw>>;
\* a type_or_opcode is <<"type", name>> or <<"opcode", n>>
NewInputs ==
    {<<"msg", <<"type", t>>, kw>> : t \in TypeInputs, kw \in Kws}
    \cup {<<"msg2", <<"opcode", o>>, <<>>>> : o \in OpcodeInputs}

---------------------------------------------------------------------------
(* Integer helpers: Python's &, | and >> on unbounded integers.            *)

RECURSIVE BitAnd(_, _)
BitAnd(a, b) ==
    IF b = 0 THEN 0
    ELSE (IF a % 2 = 1 /\ b % 2 = 1 THEN 1 ELSE 0)
         + 2 * BitAnd(a \div 2, b \div 2)

RECURSIVE BitOr(_, _)
BitOr(a, b) ==
    IF a = 0 THEN b
    ELSE IF b = 0 THEN a
    ELSE (IF a % 2 = 1 \/ b % 2 = 1 THEN 1 ELSE 0)
         + 2 * BitOr(a \div 2, b \div 2)

RECURSIVE ShiftRight(_, _)
ShiftRight(a, n) == IF n = 0 THEN a ELSE ShiftRight(a \div 2, n - 1)

Range(s) == {s[i] : i \in DOMAIN s}

---------------------------------------------------------------------------
(* The message specification table.                                        *)

pitchwheel_min == -8192
pitchwheel_max == 8191

\* float('inf'): larger than the length of any encoding
inf == 1000000

MsgSpec(opcode, type, args, size) ==
    [opcode |-> opcode, type |-> type, args |-> args, size |-> size]

msg_specs ==
    << MsgSpec(\h80, "note_off",       <<"channel", "note", "velocity">>, 3),
       MsgSpec(\h90, "note_on",        <<"channel", "note", "velocity">>, 3),
       MsgSpec(\hA0, "polytouch",      <<"channel", "note", "value">>, 3),
       MsgSpec(\hB0, "control_change", <<"channel", "control", "value">>, 3),
       MsgSpec(\hC0, "program_change", <<"channel", "program">>, 3),
       MsgSpec(\hD0, "aftertouch",     <<"channel", "value">>, 3),
       MsgSpec(\hE0, "pitchwheel",     <<"channel", "value">>, 3),
       MsgSpec(\hF0, "sysex",          <<"data">>, inf),
       MsgSpec(\hF1, "undefined_f1",   <<>>, 1),
       MsgSpec(\hF2, "songpos",        <<"pos">>, 3),
       MsgSpec(\hF3, "song",           <<"song">>, 2),
       MsgSpec(\hF4, "undefined_f4",   <<>>, 1),
       MsgSpec(\hF5, "undefined_f5",   <<>>, 1),
       MsgSpec(\hF6, "tune_request",   <<>>, 1),
       MsgSpec(\hF7, "sysex_end",      <<>>, 1),
       MsgSpec(\hF8, "clock",          <<>>, 1),
       MsgSpec(\hF9, "undefined_f9",   <<>>, 1),
       MsgSpec(\hFA, "start",          <<>>, 1),
       MsgSpec(\hFB, "continue",       <<>>, 1),
       MsgSpec(\hFC, "stop",           <<>>, 1),
       MsgSpec(\hFD, "undefined_fd",   <<>>, 1),
       MsgSpec(\hFE, "active_sensing", <<>>, 1),
       MsgSpec(\hFF, "reset",          <<>>, 1) >>

\* key is one of the keys the table-building loop registers spec under; a
\* key is <<"opcode", n>> or <<"type", name>>
spec_key(spec, key) ==
    IF key[1] = "type" THEN key[2] = spec.type
    ELSE IF spec.opcode < \hF0
        THEN \E i \in 0..15 : key[2] = spec.opcode + i
    ELSE key[2] = spec.opcode

\* key in spec_lookup
spec_has(key) == \E i \in DOMAIN msg_specs : spec_key(msg_specs[i], key)

\* spec_lookup[key]; a later entry of msg_specs replaces an earlier one
spec_lookup(key) ==
    LET hits == {i \in DOMAIN msg_specs : spec_key(msg_specs[i], key)}
    IN  msg_specs[CHOOSE i \in hits : \A j \in hits : j <= i]

---------------------------------------------------------------------------
(* Validation.                                                             *)

NoErr == "none"

isint(val) == val \in Int

isnum(val) == val \in Int

assert_time(time) ==
    IF isnum(time) THEN NoErr ELSE "time must be a number or None"

assert_channel(val) ==
    IF ~isint(val) \/ ~(0 <= val /\ val < 16)
        THEN "channel must be integer in range(0, 16)"
        ELSE NoErr

assert_songpos(val) ==
    IF ~isint(val) \/ ~(0 <= val /\ val < 32768)
        THEN "song position must be integer in range(0, 32768)"
        ELSE NoErr

assert_pitchwheel(val) ==
    IF ~isint(val) \/ ~(pitchwheel_min <= val /\ val <= pitchwheel_max)
        THEN "pitchwheel value must be number in range"
        ELSE NoErr

assert_databyte(val) ==
    IF ~isint(val) \/ ~(0 <= val /\ val < 128)
        THEN "data byte must by in range(0, 128)"
        ELSE NoErr

---------------------------------------------------------------------------
(* The Message class.                                                      *)

\* self.__dict__[name] = value
_set(self, name, value) ==
    [n \in (DOMAIN self) \cup {name} |-> IF n = name THEN value ELSE self[n]]

hasattr(self, name) == name \in DOMAIN self

\* tuple(value)
tuple(value) == [i \in 1..Len(value) |-> value[i]]

\* the error of the checks __setattr__ runs before it stores
setattr_check(self, name, value) ==
    IF name \in Range(self["spec"].args) \/ name = "time"
    THEN CASE name = "time"       -> assert_time(value)
           [] name = "channel"    -> assert_channel(value)
           [] name = "pos"        -> assert_songpos(value)
           [] name = "pitchwheel" -> "NameError: assert_pichwheel"
           [] name = "data"       ->
                 LET bad == {i \in 1..Len(value) :
                                assert_databyte(value[i]) # NoErr}
                 IN  IF bad = {} THEN NoErr
                     ELSE assert_databyte(
                            value[CHOOSE i \in bad : \A j \in bad : i <= j])
           [] OTHER               -> NoErr
    ELSE "Invalid argument for MIDI message"

\* the value __setattr__ stores
setattr_value(name, value) == IF name = "data" THEN tuple(value) ELSE value

\* __setattr__ storing the value before it runs the checks
setattr_store_first(self, name, value) ==
    [err  |-> setattr_check(self, name, value),
     self |-> _set(self, name, setattr_value(name, value))]

__setattr__(self, name, value) ==
    LET err == setattr_check(self, name, value)
    IN  [err  |-> err,
         self |-> IF err = NoErr
                     THEN _set(self, name, setattr_value(name, value))
                     ELSE self]

\* the defaults loop of __init__
RECURSIVE init_defaults(_, _, _)
init_defaults(self, default_channel, i) ==
    LET args == self["spec"].args
    IN  IF i > Len(args) THEN self
        ELSE LET name == args[i]
                 next == IF name = "data" THEN _set(self, "data", <<>>)
                         ELSE IF name = "channel"
                                 THEN _set(self, "channel", default_channel)
                         ELSE _set(self, name, 0)
             IN  init_defaults(next, default_channel, i + 1)

\* the override loop of __init__ when every setattr succeeds
RECURSIVE init_override(_, _, _)
init_override(self, kw, names) ==
    IF names = {} THEN self
    ELSE LET name == CHOOSE n \in names : TRUE
         IN  init_override(__setattr__(self, name, kw[name]).self, kw,
                           names \ {name})

\* Message(type_or_opcode, **kw): the set of outcomes.  kw.items() has no
\* fixed order, so the override that raises is any of those that fail.
Message__init__(type_or_opcode, kw) ==
    IF ~spec_has(type_or_opcode)
    THEN {[err |-> "Invalid type name or opcode (status byte)", self |-> <<>>]}
    ELSE
    LET spec    == spec_lookup(type_or_opcode)
        chanmsg == spec.opcode < \hF0
        default_channel == IF chanmsg THEN BitAnd(spec.opcode, \h0F) ELSE 0
        opcode  == IF chanmsg THEN BitAnd(spec.opcode, \hF0) ELSE spec.opcode
        s1      == _set(_set(_set(<<>>, "spec", spec), "opcode", opcode),
                        "type", spec.type)
        s2      == _set(init_defaults(s1, default_channel, 1), "time", 0)
        failing == {n \in DOMAIN kw : __setattr__(s2, n, kw[n]).err # NoErr}
    IN  IF failing = {}
        THEN {[err |-> NoErr, self |-> init_override(s2, kw, DOMAIN kw)]}
        ELSE {[err |-> __setattr__(s2, n, kw[n]).err, self |-> s2] :
                 n \in failing}

\* kw.update(override)
update(kw, override) ==
    [n \in (DOMAIN kw) \cup (DOMAIN override) |->
        IF n \in DOMAIN override THEN override[n] ELSE kw[n]]

\* copy_kw without the time of self
copy_kw_without_time(self) ==
    [n \in Range(self["spec"].args) |-> self[n]]

\* the keyword dictionary copy() builds from self
copy_kw(self) ==
    LET args == self["spec"].args
    IN  [n \in {"time"} \cup Range(args) |-> self[n]]

copy(self, override) ==
    Message__init__(<<"type", self["type"]>>, update(copy_kw(self), override))

\* pitchwheel_bytes with the high seven bits first
pitchwheel_bytes_msb_first(v) ==
    LET value == v + 2^13
    IN  <<ShiftRight(value, 7), BitAnd(value, \h7F)>>

\* the two bytes bytes() appends for the value of a pitchwheel message
pitchwheel_bytes(v) ==
    LET value == v + 2^13
        lsb   == BitAnd(value, \h7F)
        msb   == ShiftRight(value, 7)
    IN  <<lsb, msb>>

\* the loop of bytes() over spec.args, from argument i with b built so far
RECURSIVE bytes_loop(_, _, _)
bytes_loop(self, i, b) ==
    LET args == self["spec"].args
    IN  IF i > Len(args) THEN [err |-> NoErr, b |-> b]
        ELSE LET name == args[i]
             IN  IF name = "channel" THEN bytes_loop(self, i + 1, b)
                 ELSE IF name = "data"
                     THEN bytes_loop(self, i + 1, b \o self["data"])
                 ELSE IF self["type"] = "pitchwheel" /\ name = "value"
                     THEN bytes_loop(self, i + 1,
                                     b \o pitchwheel_bytes(self["value"]))
                 ELSE IF self["type"] = "songpos" /\ name = "pos"
                     THEN [err |-> "NameError: msg", b |-> b]
                 ELSE bytes_loop(self, i + 1, Append(b, self[name]))

\* bytes() whose first byte leaves the channel out
bytes_without_channel(self) ==
    LET r == bytes_loop(self, 1, <<self["opcode"]>>)
    IN  IF r.err # NoErr THEN r
        ELSE IF self["type"] = "sysex"
            THEN [err |-> NoErr, b |-> Append(r.b, \hF7)]
        ELSE r

bytes(self) ==
    LET b0 == IF hasattr(self, "channel")
                 THEN <<BitOr(self["opcode"], self["channel"])>>
                 ELSE <<self["opcode"]>>
        r  == bytes_loop(self, 1, b0)
    IN  IF r.err # NoErr THEN r
        ELSE IF self["type"] = "sysex"
            THEN [err |-> NoErr, b |-> Append(r.b, \hF7)]
        ELSE r

\* key with the time of the message in it
key_with_time(msg) ==
    <<msg["type"], msg["time"]>>
    \o [i \in 1..Len(msg["spec"].args) |-> msg[msg["spec"].args[i]]]

key(msg) ==
    <<msg["type"]>> \o [i \in 1..Len(msg["spec"].args) |->
                           msg[msg["spec"].args[i]]]

__eq__(self, other) == key(self) = key(other)

---------------------------------------------------------------------------
(* The client.                                                             *)

bind(r, m) == [x \in (DOMAIN msgs) \cup {r} |-> IF x = r THEN m ELSE msgs[x]]

Init ==
    /\ msgs = <<>>
    /\ last = [op |-> "start", err |-> NoErr]

\* r = Message(type_or_opcode, **kw)
New(r, type_or_opcode, kw) ==
    /\ r \notin DOMAIN msgs
    /\ \E res \in Message__init__(type_or_opcode, kw) :
        /\ msgs' = IF res.err = NoErr THEN bind(r, res.self) ELSE msgs
        /\ last' = IF res.err = NoErr
                      THEN [op |-> "new", err |-> NoErr, ref |-> r,
                            arg |-> type_or_opcode, kw |-> kw]
                      ELSE [op |-> "new", err |-> res.err]

\* setattr(r, name, value)
SetAttr(r, name, value) ==
    /\ r \in DOMAIN msgs
    /\ LET res == __setattr__(msgs[r], name, value)
       IN  /\ msgs' = [msgs EXCEPT ![r] = res.self]
           /\ last' = [op |-> "setattr", err |-> res.err]

\* msg2 = msg.copy(override)
Copy(override) ==
    /\ "msg" \in DOMAIN msgs
    /\ "msg2" \notin DOMAIN msgs
    /\ \E res \in copy(msgs["msg"], override) :
        /\ msgs' = IF res.err = NoErr THEN bind("msg2", res.self) ELSE msgs
        /\ last' = [op |-> "copy", err |-> res.err, override |-> override]

\* r.bytes()
Bytes(r) ==
    /\ r \in DOMAIN msgs
    /\ LET res == bytes(msgs[r])
       IN  last' = [op |-> "bytes", err |-> res.err, ref |-> r,
                    ret |-> IF res.err = NoErr THEN res.b ELSE <<>>]
    /\ UNCHANGED msgs

\* msg == msg2
Eq ==
    /\ DOMAIN msgs = Refs
    /\ last' = [op |-> "eq", err |-> NoErr,
                ret |-> __eq__(msgs["msg"], msgs["msg2"])]
    /\ UNCHANGED msgs

Next ==
    \/ \E n \in NewInputs : New(n[1], n[2], n[3])
    \/ \E r \in Refs, a \in AttrInputs : SetAttr(r, a[1], a[2])
    \/ \E o \in Kws : Copy(o)
    \/ \E r \in Refs : Bytes(r)
    \/ Eq

Spec == Init /\ [][Next]_vars

---------------------------------------------------------------------------
(* Properties.                                                             *)

Fields(m) == Range(m["spec"].args)

Bound(r) == r \in DOMAIN msgs

\* the range the documentation gives field n of message m
FieldInRange(m, n) ==
    IF n = "data"
        THEN \A i \in 1..Len(m[n]) : m[n][i] \in 0..127
    ELSE IF n = "channel" THEN m[n] \in 0..15
    ELSE IF n = "pos" THEN m[n] \in 0..32767
    ELSE IF m["type"] = "pitchwheel" /\ n = "value"
        THEN m[n] \in (-8192)..8191
    ELSE m[n] \in 0..127

\* C1: every field of every existing message is within its documented
\* range, after construction and after every assignment.
C1_EveryFieldInRange ==
    \A r \in DOMAIN msgs : \A n \in Fields(msgs[r]) : FieldInRange(msgs[r], n)

\* C2: a message constructed from the raw status byte b+c of a channel
\* message, without overrides, has the spec of b, opcode b and channel c,
\* and its first encoded byte is b+c.
C2_StatusByteGivesChannel ==
    (last.op = "new" /\ last.err = NoErr /\ last.arg[1] = "opcode"
        /\ last.arg[2] < 240)
    => LET raw == last.arg[2]
           c   == raw % 16
           b   == raw - c
           m   == msgs[last.ref]
       IN  /\ m["spec"] = spec_lookup(<<"opcode", b>>)
           /\ m["opcode"] = b
           /\ m["channel"] = c
           /\ bytes(m).err = NoErr
           /\ bytes(m).b[1] = raw

\* C3: bytes() of a songpos message with a valid pos returns
\* [0xF2, pos mod 128, pos div 128].
C3_SongposBytes ==
    (last.op = "bytes" /\ msgs[last.ref]["type"] = "songpos"
        /\ msgs[last.ref]["pos"] \in 0..32767)
    => LET pos == msgs[last.ref]["pos"]
       IN  /\ last.err = NoErr
           /\ last.ret = <<242, pos % 128, pos \div 128>>

\* C4: for every type but sysex, bytes() of a freshly constructed message
\* is as long as the size its table entry declares; program_change and
\* aftertouch declare 2.
C4_FreshLengthIsDeclaredSize ==
    (last.op = "new" /\ last.err = NoErr
        /\ msgs[last.ref]["type"] # "sysex")
    => LET m == msgs[last.ref]
       IN  /\ bytes(m).err = NoErr
           /\ Len(bytes(m).b) = m["spec"].size
           /\ (m["type"] \in {"program_change", "aftertouch"}
                  => m["spec"].size = 2)

\* C5: a pitchwheel value outside [-8192, 8191] is rejected, by the
\* constructor and by assignment, and is never stored.
C5_PitchwheelValueInRange ==
    \A r \in DOMAIN msgs :
        msgs[r]["type"] = "pitchwheel"
        => /\ msgs[r]["value"] \in pitchwheel_min..pitchwheel_max
           /\ \A v \in {-8193, 8192} :
                 __setattr__(msgs[r], "value", v).err # NoErr

\* the assignments C6 names that __setattr__ checks: a channel, pos or
\* data out of range, and a name that is neither a field nor time
C6_Rejected(m, name, value) ==
    \/ name \notin Fields(m) \cup {"time"}
    \/ name = "channel" /\ value \notin 0..15
    \/ name = "pos" /\ value \notin 0..32767
    \/ name = "data" /\ \E i \in 1..Len(value) : value[i] \notin 0..127

C6_Inputs ==
    AttrInputs \cup {<<"channel", 16>>, <<"channel", -1>>, <<"spec", 0>>,
                     <<"type", 0>>, <<"opcode", 0>>}

\* the named assignments raise on every existing message and leave it as
\* it was
C6_State ==
    \A r \in DOMAIN msgs : \A a \in C6_Inputs :
        C6_Rejected(msgs[r], a[1], a[2])
        => /\ __setattr__(msgs[r], a[1], a[2]).err # NoErr
           /\ __setattr__(msgs[r], a[1], a[2]).self = msgs[r]

\* an assignment that raised left all messages as they were, and no step
\* changes the spec, type or opcode of an existing message
C6_Step ==
    /\ (last'.op = "setattr" /\ last'.err # NoErr) => msgs' = msgs
    /\ \A r \in DOMAIN msgs :
          /\ r \in DOMAIN msgs'
          /\ DOMAIN msgs'[r] = DOMAIN msgs[r]
          /\ \A n \in {"spec", "type", "opcode"} : msgs'[r][n] = msgs[r][n]

C7_PitchwheelBytes ==
    (last.op = "bytes" /\ msgs[last.ref]["type"] = "pitchwheel"
        /\ msgs[last.ref]["value"] \in (-8192)..8191)
    => LET c == msgs[last.ref]["channel"]
           v == msgs[last.ref]["value"]
       IN  /\ last.err = NoErr
           /\ last.ret = <<224 + c, (v + 8192) % 128, (v + 8192) \div 128>>
           /\ last.ret[2] \in 0..127 /\ last.ret[3] \in 0..127
           /\ v = 0 => SubSeq(last.ret, 2, 3) = <<0, 64>>
           /\ v = -8192 => SubSeq(last.ret, 2, 3) = <<0, 0>>
           /\ v = 8191 => SubSeq(last.ret, 2, 3) = <<127, 127>>

\* a pitchwheel message on channel 1 at full positive bend was encoded
C7_Witness ==
    /\ last.op = "bytes"
    /\ msgs[last.ref]["type"] = "pitchwheel"
    /\ msgs[last.ref]["value"] = 8191
    /\ last.ret = <<225, 127, 127>>

\* the encoding C8 states for a message that is neither pitchwheel nor
\* songpos
C8_Expected(m) ==
    LET args   == m["spec"].args
        status == IF "channel" \in Fields(m)
                     THEN m["opcode"] + m["channel"]
                     ELSE m["opcode"]
        rest   == SelectSeq(args, LAMBDA n : n \notin {"channel", "data"})
    IN  <<status>>
        \o (IF "data" \in Fields(m) THEN m["data"] ELSE <<>>)
        \o [i \in 1..Len(rest) |-> m[rest[i]]]
        \o (IF m["type"] = "sysex" THEN <<247>> ELSE <<>>)

\* C8: bytes() of a message that is neither pitchwheel nor songpos is the
\* status byte (opcode | channel, or opcode alone), then the other fields
\* in declared order, one byte each and the sysex data whole, then 0xF7
\* exactly for sysex; note_on(1, 60, 100) gives [0x91, 60, 100], sysex
\* (1, 2, 3) gives [0xF0, 1, 2, 3, 0xF7], sysex encodes to len(data) + 2.
C8_OrdinaryBytes ==
    (last.op = "bytes"
        /\ msgs[last.ref]["type"] \notin {"pitchwheel", "songpos"})
    => LET m == msgs[last.ref]
       IN  /\ last.err = NoErr
           /\ last.ret = C8_Expected(m)
           /\ (m["type"] = "note_on" /\ m["channel"] = 1 /\ m["note"] = 60
                  /\ m["velocity"] = 100) => last.ret = <<145, 60, 100>>
           /\ m["type"] = "sysex"
                 => /\ Len(last.ret) = 1 + Len(m["data"]) + 1
                    /\ m["data"] = <<1, 2, 3>>
                          => last.ret = <<240, 1, 2, 3, 247>>

\* the documented note_on example was encoded
C8_Witness ==
    /\ last.op = "bytes"
    /\ msgs[last.ref]["type"] = "note_on"
    /\ last.ret = <<145, 60, 100>>

\* the errors of a set of constructor outcomes
Errs(outcomes) == {o.err : o \in outcomes}

\* the effect of one copy() and of one assignment on the two messages
C9_Step ==
    /\ last'.op = "copy"
       => LET m == msgs["msg"]
              o == last'.override
          IN  /\ msgs'["msg"] = m
              /\ last'.err \in Errs(Message__init__(<<"type", m["type"]>>, o))
              /\ IF last'.err # NoErr THEN msgs' = msgs
                 ELSE LET c == msgs'["msg2"]
                      IN  /\ DOMAIN c = DOMAIN m
                          /\ \A n \in {"spec", "type", "opcode"} : c[n] = m[n]
                          /\ \A n \in Fields(m) \cup {"time"} :
                                c[n] = IF n \in DOMAIN o THEN o[n] ELSE m[n]
    /\ (last'.op = "setattr" /\ DOMAIN msgs = Refs)
       => \/ msgs'["msg"] = msgs["msg"]
          \/ msgs'["msg2"] = msgs["msg2"]

\* C9: copy() raises exactly when the constructor raises for the same
\* overrides, with an error the constructor raises, and then changes
\* nothing; otherwise it binds a new message of the same spec, type and
\* opcode whose overridden attributes have the override values and whose
\* other fields and time have the original's current values, and leaves
\* the original as it was; a later assignment changes one of the two
\* messages only.
C9_CopyFrame == [][C9_Step]_vars

\* a note_on whose note was assigned after construction was copied with
\* velocity overridden
C9_Witness ==
    /\ last.op = "copy" /\ last.err = NoErr
    /\ msgs["msg"]["type"] = "note_on"
    /\ "velocity" \in DOMAIN last.override
    /\ msgs["msg"]["channel"] = 0 /\ msgs["msg"]["note"] = 60
    /\ msgs["msg"]["velocity"] = 0
    /\ msgs["msg2"]["note"] = 60 /\ msgs["msg2"]["velocity"] = 32

\* C10: msg == msg2 exactly when the two have the same type and the same
\* value in every field of spec.args; time does not count, nor how the
\* messages were made: a message equals itself, its copy and itself at
\* another time.
C10_Equality ==
    /\ last.op = "eq"
       => (last.ret <=>
             /\ msgs["msg"]["type"] = msgs["msg2"]["type"]
             /\ \A n \in Fields(msgs["msg"]) :
                   msgs["msg"][n] = msgs["msg2"][n])
    /\ \A r \in DOMAIN msgs :
          /\ __eq__(msgs[r], msgs[r])
          /\ __eq__(_set(msgs[r], "time", 1 + msgs[r]["time"]), msgs[r])
          /\ \A o \in copy(msgs[r], <<>>) :
                o.err = NoErr /\ __eq__(o.self, msgs[r])

\* two note_on messages that differ in time only compared equal
C10_Witness ==
    /\ last.op = "eq" /\ last.ret
    /\ msgs["msg"]["type"] = "note_on"
    /\ msgs["msg"]["note"] = 60
    /\ msgs["msg"]["time"] # msgs["msg2"]["time"]

=============================================================================
